---- MODULE Spec2Model ----
(***************************************************************************)
(* GATT profile shim (system/gd/rust/topshim/src/profiles/gatt.rs):        *)
(* dispatcher registration in Gatt::initialize, the callback marshalers    *)
(* generated by cb_variant!, and the foreign memory their arguments point  *)
(* into.                                                                   *)
(***************************************************************************)
EXTENDS Integers, Sequences, FiniteSets, TLC

\* ------------------------------------------------------------------ bounds
\* Marshaler invocations per behaviour of Spec.
MaxCalls == 2
\* Elements held by one foreign memory cell (a struct or a buffer).
CellLen == 4

\* Gatt facades (each driven by its own application thread) and foreign threads.
Gatts == {1, 2}
Threads == {1, 2}
\* Foreign memory cells; Null is the null pointer.
Addrs == {1, 2}
Null == 0
\* Base values of the primitive arguments of one invocation.
Seeds == {0, 1}
\* First byte of the patterns the foreign side writes into a cell.
Fills == {16, 32}

Categories == {"client", "server", "scanner"}
NoHandler == <<>>

\* ------------------------------------------------------------------ values
\* Every argument and event field is one of: a primitive, a raw pointer, an
\* owned copy.
Val(n) == [k |-> "val", v |-> <<n>>]
Ptr(a) == [k |-> "ptr", v |-> <<a>>]
Own(s) == [k |-> "own", v |-> s]

Pattern(f) == [i \in 1..CellLen |-> f + i]

\* ------------------------------------------------------- foreign memory
\* A cell of foreign memory: live until the foreign side frees it.
Cell(f) == [live |-> TRUE, data |-> Pattern(f)]
\* What a read of an invalid location yields (null, freed or out of range).
Garbage == -1

ReadElem(m, a, i) ==
    IF a \in Addrs /\ m[a].live /\ i \in 1..Len(m[a].data)
    THEN m[a].data[i]
    ELSE Garbage

\* ----------------------------------------------------------- conversions
\* btif::ptr_to_vec(start, length): the elements start[0..length), copied
\* into an owned vector; reads lists the pointers it dereferenced.
ptr_to_vec(m, a, n) ==
    [val   |-> [i \in 1..n |-> ReadElem(m, a, i)],
     reads |-> IF n > 0 THEN {a} ELSE {}]

\* The largest usize. The target's value (2^64 - 1, or 2^32 - 1) is beyond
\* the integers of the checker; the largest integer it holds stands for it,
\* and like it exceeds the length of every buffer.
UsizeMax == 2147483647

\* `_2 as usize` on the i32 count of gc_get_gatt_db_cb: a negative count
\* wraps to usize::MAX + 1 + n.
CountAsUsize(n) == IF n >= 0 THEN n ELSE UsizeMax + (n + 1)

\* `unsafe { *_2.clone() }`, deref_ffi_address!: the pointee copied by value.
ConvertStructAliased(m, a) == [val |-> Ptr(a), reads |-> {}]
ConvertStruct(m, a) == [val |-> Own(m[a].data), reads |-> {a}]

\* `let _7 = ptr_to_vec(_7, _8);`
ConvertBufOneMore(m, a, n) ==
    LET r == ptr_to_vec(m, a, n + 1) IN [val |-> Own(r.val), reads |-> r.reads]
ConvertBuf(m, a, n) ==
    LET r == ptr_to_vec(m, a, n) IN [val |-> Own(r.val), reads |-> r.reads]

\* An argument the conversion block leaves alone (`{}`): moved as it is.
ConvertNone(x) == [val |-> x, reads |-> {}]

\* ------------------------------------------------------------ marshalers
\* One row per cb_variant! invocation: the dispatcher type, the event
\* variant, and the foreign parameters in order. Parameter kinds:
\*   int     primitive (i32, u16, u8, i8, bool)
\*   struct  pointer to a fixed-size structure, dereferenced and copied
\*   raw     pointer with no conversion statement
\*   buf     pointer of a pointer+length pair, given to ptr_to_vec
\*   len     usize length of the pair, kept in the event
\*   count   i32 count of the pair, cast with `as usize`, kept in the event
\*   lenc    usize length of the pair, consumed by the conversion (`-> _`)
\*   byval   structure passed by value
M(c, v, ps) == [cat |-> c, variant |-> v, params |-> ps]

GattClientMarshalers ==
    [gc_register_client_cb |-> M("client", "RegisterClient", <<"int", "int", "struct">>),
     gc_open_cb |-> M("client", "Connect", <<"int", "int", "int", "struct">>),
     gc_close_cb |-> M("client", "Disconnect", <<"int", "int", "int", "struct">>),
     gc_search_complete_cb |-> M("client", "SearchComplete", <<"int", "int">>),
     gc_register_for_notification_cb |->
         M("client", "RegisterForNotification", <<"int", "int", "int", "int">>),
     gc_notify_cb |-> M("client", "Notify", <<"int", "struct">>),
     gc_read_characteristic_cb |->
         M("client", "ReadCharacteristic", <<"int", "int", "struct">>),
     gc_write_characteristic_cb |->
         M("client", "WriteCharacteristic", <<"int", "int", "int", "int", "raw">>),
     gc_read_descriptor_cb |-> M("client", "ReadDescriptor", <<"int", "int", "struct">>),
     gc_write_descriptor_cb |->
         M("client", "WriteDescriptor", <<"int", "int", "int", "int", "raw">>),
     gc_execute_write_cb |-> M("client", "ExecuteWrite", <<"int", "int">>),
     gc_read_remote_rssi_cb |->
         M("client", "ReadRemoteRssi", <<"int", "struct", "int", "int">>),
     gc_configure_mtu_cb |-> M("client", "ConfigureMtu", <<"int", "int", "int">>),
     gc_congestion_cb |-> M("client", "Congestion", <<"int", "int">>),
     gc_get_gatt_db_cb |-> M("client", "GetGattDb", <<"int", "buf", "count">>),
     gc_phy_updated_cb |-> M("client", "PhyUpdated", <<"int", "int", "int", "int">>),
     gc_conn_updated_cb |->
         M("client", "ConnUpdated", <<"int", "int", "int", "int", "int">>),
     gc_service_changed_cb |-> M("client", "ServiceChanged", <<"int">>),
     read_phy_callback |->
         M("client", "ReadPhy", <<"int", "byval", "int", "int", "int">>)]

GattServerMarshalers ==
    [gs_register_server_cb |-> M("server", "RegisterServer", <<"int", "int", "struct">>),
     gs_connection_cb |-> M("server", "Connection", <<"int", "int", "int", "struct">>),
     gs_service_added_cb |-> M("server", "ServiceAdded", <<"int", "int", "buf", "len">>),
     gs_service_stopped_cb |-> M("server", "ServiceStopped", <<"int", "int", "int">>),
     gs_service_deleted_cb |-> M("server", "ServiceDeleted", <<"int", "int", "int">>),
     gs_request_read_characteristic_cb |->
         M("server", "RequestReadCharacteristic",
           <<"int", "int", "struct", "int", "int", "int">>),
     gs_request_read_descriptor_cb |->
         M("server", "RequestReadDescriptor",
           <<"int", "int", "struct", "int", "int", "int">>),
     gs_request_write_characteristic_cb |->
         M("server", "RequestWriteCharacteristic",
           <<"int", "int", "struct", "int", "int", "int", "int", "buf", "len">>),
     gs_request_write_descriptor_cb |->
         M("server", "RequestWriteDescriptor",
           <<"int", "int", "struct", "int", "int", "int", "int", "buf", "len">>),
     gs_request_exec_write_cb |->
         M("server", "RequestExecWrite", <<"int", "int", "struct", "int">>),
     gs_response_confirmation_cb |->
         M("server", "ResponseConfirmation", <<"int", "int">>),
     gs_indication_sent_cb |-> M("server", "IndicationSent", <<"int", "int">>),
     gs_congestion_cb |-> M("server", "Congestion", <<"int", "int">>),
     gs_mtu_changed_cb |-> M("server", "MtuChanged", <<"int", "int">>),
     gs_phy_updated_cb |-> M("server", "PhyUpdated", <<"int", "int", "int", "int">>),
     gs_conn_updated_cb |->
         M("server", "ConnUpdated", <<"int", "int", "int", "int", "int">>)]

GattScannerMarshalers ==
    [gdscan_on_scanner_registered |->
         M("scanner", "OnScannerRegistered", <<"struct", "int", "int">>),
     gdscan_on_set_scanner_parameter_complete |->
         M("scanner", "OnSetScannerParameterComplete", <<"int", "int">>),
     gdscan_on_scan_result |->
         M("scanner", "OnScanResult",
           <<"int", "int", "struct", "int", "int", "int", "int", "int", "int",
             "buf", "lenc">>),
     gdscan_on_track_adv_found_lost |->
         M("scanner", "OnTrackAdvFoundLost", <<"byval">>),
     gdscan_on_batch_scan_reports |->
         M("scanner", "OnBatchScanReports",
           <<"int", "int", "int", "int", "buf", "lenc">>),
     gdscan_on_batch_scan_threshold_crossed |->
         M("scanner", "OnBatchScanThresholdCrossed", <<"int">>)]

ClientCbs == DOMAIN GattClientMarshalers
ServerCbs == DOMAIN GattServerMarshalers
ScannerCbs == DOMAIN GattScannerMarshalers
Cbs == ClientCbs \cup ServerCbs \cup ScannerCbs

MarshalerRow(cb) ==
    IF cb \in ClientCbs THEN GattClientMarshalers[cb]
    ELSE IF cb \in ServerCbs THEN GattServerMarshalers[cb]
    ELSE GattScannerMarshalers[cb]

\* gc_register_client_cb generated with the variant of gc_open_cb.
MarshalerMisbound(cb) ==
    IF cb = "gc_register_client_cb"
    THEN M("client", "Connect", <<"int", "int", "struct">>)
    ELSE MarshalerRow(cb)

\* The cb_variant! invocation that generates marshaler cb.
Marshaler(cb) ==
    IF cb \in ClientCbs THEN GattClientMarshalers[cb]
    ELSE IF cb \in ServerCbs THEN GattServerMarshalers[cb]
    ELSE GattScannerMarshalers[cb]

\* The length that goes with the pointer at position i of a pointer+length pair.
PairLen(ps, args, i) ==
    IF ps[i + 1] = "count" THEN CountAsUsize(args[i + 1].v[1]) ELSE args[i + 1].v[1]

\* The conversion block applied to the argument at position i.
ConvertArg(ps, args, m, i) ==
    CASE ps[i] = "struct" -> ConvertStruct(m, args[i].v[1])
      [] ps[i] = "buf"    -> ConvertBuf(m, args[i].v[1], PairLen(ps, args, i))
      [] OTHER            -> ConvertNone(args[i])

\* The body of a generated marshaler up to the dispatch: each argument
\* converted, the event built from them in argument order.
RECURSIVE MarshalFrom(_, _, _, _)
MarshalFrom(ps, args, m, i) ==
    IF i > Len(ps) THEN [fields |-> <<>>, reads |-> {}]
    ELSE LET c    == ConvertArg(ps, args, m, i)
             rest == MarshalFrom(ps, args, m, i + 1)
         IN  [fields |-> (IF ps[i] = "lenc" THEN <<>> ELSE <<c.val>>) \o rest.fields,
              reads  |-> {<<i, x>> : x \in c.reads} \cup rest.reads]

Marshal(cb, args, m) ==
    LET r == MarshalFrom(Marshaler(cb).params, args, m, 1)
    IN  [variant |-> Marshaler(cb).variant, fields |-> r.fields, reads |-> r.reads]

\* ---------------------------------------------------------------- state
VARIABLES
    dispatchers,  \* topstack's dispatcher container: category -> handler
    attempts,     \* every DispatchContainer::set made by initialize, in order
    ipc,          \* where each facade's initialize call stands
    icalls,       \* initialize calls begun on each facade
    is_init,      \* Gatt::is_init
    retained,     \* Gatt::callbacks and the three sub-tables: the call that built them
    result,       \* what the facade's last completed initialize returned
    handed,       \* callback tables the foreign init entry point was given
    wired,        \* initialize calls that invoked BleScannerIntf::RegisterCallbacks
    mem,          \* foreign memory
    tpc,          \* where each foreign thread stands inside a marshaler
    tcall,        \* the invocation each foreign thread is running
    tgot,         \* the dispatcher its lookup returned
    calls,        \* every marshaler invocation, in the order they began
    delivered,    \* per category, what the consumer's handler was invoked with
                  \* (rejected: a registration for the category had failed by then)
    hLock,        \* the Mutex around each category's dispatcher: its holder
    returned,     \* invocations whose marshaler returned
    rcs,          \* what the foreign init entry point returned to each facade
    queried,      \* what each facade's last is_initialized() call returned, and
                  \* the initialize calls made on the facade by then
    conv,         \* the last GattStatus conversion: code in, variant, code back
    fcall,        \* the last Profile Facade method call and its outcome
    made          \* the last Gatt::new call: the profile lookup's result, the facade

vars == <<dispatchers, attempts, ipc, icalls, is_init, retained, result, handed,
          wired, mem, tpc, tcall, tgot, calls, delivered, hLock, returned, rcs,
          queried, conv, fcall, made>>

lifecycleVars == <<dispatchers, attempts, ipc, icalls, is_init, retained, result,
                   handed, wired, rcs>>
threadVars == <<tpc, tcall, tgot, calls, delivered, hLock, returned>>
facadeVars == <<queried, conv, fcall, made>>

\* Return codes of the foreign init entry point: 0 is success.
InitRcs == {0, 1}
NoTables == <<>>
NoResult == <<>>
NoConversion == [code |-> 0, variant |-> <<>>, back |-> <<>>, done |-> FALSE]
NoFacadeCall == [method |-> "", rc |-> 0, out |-> <<>>, outcome |-> "none",
                 issued |-> 0, ptrs |-> {}]
NoGattNew == [done |-> FALSE, r |-> 0, facade |-> <<>>]

Init ==
    /\ dispatchers = [c \in Categories |-> NoHandler]
    /\ attempts = <<>>
    /\ ipc = [g \in Gatts |-> "idle"]
    /\ icalls = [g \in Gatts |-> 0]
    /\ is_init = [g \in Gatts |-> FALSE]
    /\ retained = [g \in Gatts |-> NoTables]
    /\ result = [g \in Gatts |-> NoResult]
    /\ handed = {}
    /\ wired = {}
    /\ mem = [a \in Addrs |-> Cell(16 * a)]
    /\ tpc = [t \in Threads |-> "idle"]
    /\ tcall = [t \in Threads |-> 0]
    /\ tgot = [t \in Threads |-> NoHandler]
    /\ calls = <<>>
    /\ delivered = [c \in Categories |-> <<>>]
    /\ hLock = [c \in Categories |-> 0]
    /\ returned = {}
    /\ rcs = [g \in Gatts |-> NoResult]
    /\ queried = [g \in Gatts |-> NoResult]
    /\ conv = NoConversion
    /\ fcall = NoFacadeCall
    /\ made = NoGattNew

\* --------------------------------------------------- dispatcher container
\* DispatchContainer::set: binds h to category c unless c is bound, and
\* says whether c was bound already.
DispatchContainerSet(reg, c, h) ==
    [already |-> reg[c] # NoHandler,
     reg     |-> IF reg[c] # NoHandler THEN reg ELSE [reg EXCEPT ![c] = h]]

\* DispatchContainer::get: the handler bound to c, if any.
DispatchContainerGet(reg, c) == reg[c]

\* ------------------------------------------------------ Gatt::initialize
\* `if get_dispatchers().lock().unwrap().set::<T>(..) { panic!(..) }`
SetOutcomeIgnored(already) == "ok"
SetOutcomeInverted(already) == IF already THEN "ok" ELSE "panic"
SetOutcome(already) == IF already THEN "panic" ELSE "ok"

\* The dispatcher the k-th initialize call on facade g supplies.
HandlerOf(g, k) == <<g, k>>

\* One of the three registration blocks: facade g, at `from`, sets the
\* dispatcher of category c under the container's lock and panics if the
\* category was set already.
RegisterDispatcher(g, c, from, to, k) ==
    LET r   == DispatchContainerSet(dispatchers, c, HandlerOf(g, k))
        out == SetOutcome(r.already)
    IN  /\ ipc[g] = from
        /\ dispatchers' = r.reg
        /\ attempts' = Append(attempts,
               [cat |-> c, h |-> HandlerOf(g, k), already |-> r.already, outcome |-> out])
        /\ ipc' = [ipc EXCEPT ![g] = IF out = "panic" THEN "panicked" ELSE to]

InitializeSetClientAfterHandOver(g) ==
    /\ RegisterDispatcher(g, "client", "idle", "set_server", icalls[g] + 1)
    /\ icalls' = [icalls EXCEPT ![g] = @ + 1]
    /\ handed' = handed \cup {<<g, icalls[g] + 1>>}
    /\ UNCHANGED <<is_init, retained, result, wired, rcs, mem>>
    /\ UNCHANGED threadVars
    /\ UNCHANGED facadeVars

\* initialize is called: the first of its three registration blocks.
InitializeSetClient(g) ==
    /\ RegisterDispatcher(g, "client", "idle", "set_server", icalls[g] + 1)
    /\ icalls' = [icalls EXCEPT ![g] = @ + 1]
    /\ UNCHANGED <<is_init, retained, result, handed, wired, rcs, mem>>
    /\ UNCHANGED threadVars
    /\ UNCHANGED facadeVars

InitializeSetServer(g) ==
    /\ RegisterDispatcher(g, "server", "set_server", "set_scanner", icalls[g])
    /\ UNCHANGED <<icalls, is_init, retained, result, handed, wired, rcs, mem>>
    /\ UNCHANGED threadVars
    /\ UNCHANGED facadeVars

InitializeSetScannerSkipped(g) ==
    /\ ipc[g] = "set_scanner"
    /\ ipc' = [ipc EXCEPT ![g] = "call_init"]
    /\ UNCHANGED <<dispatchers, attempts>>
    /\ UNCHANGED <<icalls, is_init, retained, result, handed, wired, rcs, mem>>
    /\ UNCHANGED threadVars
    /\ UNCHANGED facadeVars

InitializeSetScanner(g) ==
    /\ RegisterDispatcher(g, "scanner", "set_scanner", "call_init", icalls[g])
    /\ UNCHANGED <<icalls, is_init, retained, result, handed, wired, rcs, mem>>
    /\ UNCHANGED threadVars
    /\ UNCHANGED facadeVars

\* The tables are boxed and `ccall!(self, init, rawcb)` begins: from here the
\* foreign side holds the table's address.
InitializeCallInit(g) ==
    /\ ipc[g] = "call_init"
    /\ handed' = handed \cup {<<g, icalls[g]>>}
    /\ ipc' = [ipc EXCEPT ![g] = "in_init"]
    /\ UNCHANGED <<dispatchers, attempts, icalls, is_init, retained, result, wired, rcs, mem>>
    /\ UNCHANGED threadVars
    /\ UNCHANGED facadeVars

InitializeInitReturnDropsOnFailure(g, rc) ==
    /\ ipc[g] = "in_init"
    /\ is_init' = [is_init EXCEPT ![g] = (rc = 0)]
    /\ retained' = [retained EXCEPT ![g] = IF rc = 0 THEN <<g, icalls[g]>> ELSE NoTables]
    /\ rcs' = [rcs EXCEPT ![g] = <<rc>>]
    /\ ipc' = [ipc EXCEPT ![g] = "register_callbacks"]
    /\ UNCHANGED <<dispatchers, attempts, icalls, result, handed, wired, mem>>
    /\ UNCHANGED threadVars
    /\ UNCHANGED facadeVars

\* The foreign init returns rc; is_init and the four tables are stored.
InitializeInitReturn(g, rc) ==
    /\ ipc[g] = "in_init"
    /\ is_init' = [is_init EXCEPT ![g] = (rc = 0)]
    /\ retained' = [retained EXCEPT ![g] = <<g, icalls[g]>>]
    /\ rcs' = [rcs EXCEPT ![g] = <<rc>>]
    /\ ipc' = [ipc EXCEPT ![g] = "register_callbacks"]
    /\ UNCHANGED <<dispatchers, attempts, icalls, result, handed, wired, mem>>
    /\ UNCHANGED threadVars
    /\ UNCHANGED facadeVars

\* RegisterCallbacks made only by an initialize whose foreign init succeeded.
InitializeRegisterCallbacksIfInit(g) ==
    /\ ipc[g] = "register_callbacks"
    /\ wired' = IF is_init[g] THEN wired \cup {<<g, icalls[g]>>} ELSE wired
    /\ result' = [result EXCEPT ![g] = <<is_init[g]>>]
    /\ ipc' = [ipc EXCEPT ![g] = "idle"]
    /\ UNCHANGED <<dispatchers, attempts, icalls, is_init, retained, handed, rcs, mem>>
    /\ UNCHANGED threadVars
    /\ UNCHANGED facadeVars

\* `mutcxxcall!(self.scanner, RegisterCallbacks); return self.is_init;`
InitializeRegisterCallbacks(g) ==
    /\ ipc[g] = "register_callbacks"
    /\ wired' = wired \cup {<<g, icalls[g]>>}
    /\ result' = [result EXCEPT ![g] = <<is_init[g]>>]
    /\ ipc' = [ipc EXCEPT ![g] = "idle"]
    /\ UNCHANGED <<dispatchers, attempts, icalls, is_init, retained, handed, rcs, mem>>
    /\ UNCHANGED threadVars
    /\ UNCHANGED facadeVars

Initialize(g) ==
    \/ InitializeSetClient(g)
    \/ InitializeSetServer(g)
    \/ InitializeSetScanner(g)
    \/ InitializeCallInit(g)
    \/ \E rc \in InitRcs : InitializeInitReturn(g, rc)
    \/ InitializeRegisterCallbacks(g)

\* ------------------------------------------------- foreign invocations
HasKind(ps, kd) == \E i \in 1..Len(ps) : ps[i] = kd
LiveAddrs(m) == {a \in Addrs : m[a].live}

\* The arguments the foreign side may pass to cb: struct pointers are valid,
\* a pointer+length pair with a length above 0 points to that many elements,
\* and a pair of length 0 may carry any pointer, null included.
ArgChoices(cb, m, seeds) ==
    LET ps == Marshaler(cb).params IN
    {a \in [seed : seeds,
            sp   : IF HasKind(ps, "struct") THEN LiveAddrs(m) ELSE {Null},
            bp   : IF HasKind(ps, "buf") THEN Addrs \cup {Null}
                   ELSE IF HasKind(ps, "raw") THEN LiveAddrs(m) ELSE {Null},
            n    : IF HasKind(ps, "buf") THEN 0..CellLen ELSE {0}] :
        (HasKind(ps, "buf") /\ a.n > 0) => a.bp \in LiveAddrs(m)}

ArgAt(ps, a, i) ==
    CASE ps[i] = "int"    -> Val(a.seed + i - 1)
      [] ps[i] = "struct" -> Ptr(a.sp)
      [] ps[i] = "raw"    -> Ptr(a.bp)
      [] ps[i] = "buf"    -> Ptr(a.bp)
      [] ps[i] = "byval"  -> Own(Pattern(a.seed))
      [] OTHER            -> Val(a.n)

Args(cb, a) == [i \in 1..Len(Marshaler(cb).params) |-> ArgAt(Marshaler(cb).params, a, i)]

\* Pointers among the arguments of the invocations still running.
PtrArgs(args) == {args[i].v[1] : i \in {j \in 1..Len(args) : args[j].k = "ptr"}}
Lent == UNION {PtrArgs(calls[tcall[t]].args) :
                  t \in {u \in Threads : tpc[u] \notin {"idle", "panicked"}}}

\* The foreign side calls marshaler cb on thread t: the conversion block runs
\* and the event is built, on that thread, before anything else.
Invoke(t, cb, a, limit) ==
    LET args == Args(cb, a)
        ev   == Marshal(cb, args, mem)
    IN  /\ tpc[t] = "idle"
        /\ Len(calls) < limit
        /\ calls' = Append(calls,
               [t |-> t, cb |-> cb, args |-> args, at |-> mem, prior |-> returned,
                ev |-> [variant |-> ev.variant, fields |-> ev.fields],
                reads |-> ev.reads])
        /\ tcall' = [tcall EXCEPT ![t] = Len(calls) + 1]
        /\ tpc' = [tpc EXCEPT ![t] = "lookup"]
        /\ UNCHANGED <<tgot, delivered, hLock, returned, mem>>
        /\ UNCHANGED lifecycleVars
        /\ UNCHANGED facadeVars

\* The dispatcher type a marshaler looks up: the first argument of its
\* cb_variant! invocation.
CatOfClient(t) == "client"
CatOf(t) == Marshaler(calls[tcall[t]].cb).cat

\* `get_dispatchers().lock().get::<T>()`: the dispatcher of the marshaler's
\* category, or a panic when none is set.
LookupOutcomeSilent(h) == IF h = NoHandler THEN "idle" ELSE "dispatch"
LookupOutcome(h) == IF h = NoHandler THEN "panicked" ELSE "dispatch"

Lookup(t) ==
    LET h == DispatchContainerGet(dispatchers, CatOf(t)) IN
    /\ tpc[t] = "lookup"
    /\ tgot' = [tgot EXCEPT ![t] = h]
    /\ tpc' = [tpc EXCEPT ![t] = LookupOutcome(h)]
    /\ UNCHANGED <<tcall, calls, delivered, hLock, returned, mem>>
    /\ UNCHANGED lifecycleVars
    /\ UNCHANGED facadeVars

\* What the consumer has observed once its handler is invoked with e.
ObserveNewestFirst(log, e) == <<e>> \o log
Observe(log, e) == Append(log, e)

\* A handler stored without the Mutex: the closure is entered whether or not
\* another thread is inside it.
HandlerEnterUnlocked(t) ==
    /\ tpc[t] = "dispatch"
    /\ hLock' = [hLock EXCEPT ![CatOf(t)] = t]
    /\ delivered' = [delivered EXCEPT ![CatOf(t)] =
           Observe(@, [id |-> tcall[t], by |-> t, h |-> tgot[t],
                       ev |-> calls[tcall[t]].ev,
                       rejected |-> \E i \in 1..Len(attempts) :
                                       /\ attempts[i].cat = CatOf(t)
                                       /\ attempts[i].outcome = "panic"])]
    /\ tpc' = [tpc EXCEPT ![t] = "in_handler"]
    /\ UNCHANGED <<tcall, tgot, calls, returned, mem>>
    /\ UNCHANGED lifecycleVars
    /\ UNCHANGED facadeVars

\* The dispatcher's Mutex is taken and its dispatch closure is called with
\* the event.
HandlerEnter(t) ==
    /\ tpc[t] = "dispatch"
    /\ hLock[CatOf(t)] = 0
    /\ hLock' = [hLock EXCEPT ![CatOf(t)] = t]
    /\ delivered' = [delivered EXCEPT ![CatOf(t)] =
           Observe(@, [id |-> tcall[t], by |-> t, h |-> tgot[t],
                       ev |-> calls[tcall[t]].ev,
                       rejected |-> \E i \in 1..Len(attempts) :
                                       /\ attempts[i].cat = CatOf(t)
                                       /\ attempts[i].outcome = "panic"])]
    /\ tpc' = [tpc EXCEPT ![t] = "in_handler"]
    /\ UNCHANGED <<tcall, tgot, calls, returned, mem>>
    /\ UNCHANGED lifecycleVars
    /\ UNCHANGED facadeVars

\* The closure returns, the Mutex is released, the marshaler returns.
HandlerReturn(t) ==
    /\ tpc[t] = "in_handler"
    /\ hLock' = [hLock EXCEPT ![CatOf(t)] = 0]
    /\ returned' = returned \cup {tcall[t]}
    /\ tpc' = [tpc EXCEPT ![t] = "idle"]
    /\ UNCHANGED <<tcall, tgot, calls, delivered, mem>>
    /\ UNCHANGED lifecycleVars
    /\ UNCHANGED facadeVars

\* Pointers the foreign side has passed to a marshaler so far.
Passed == UNION {PtrArgs(calls[i].args) : i \in 1..Len(calls)}

\* The foreign side reuses a cell it passed earlier and has not lent to a
\* running call.
ForeignWrite(a, f) ==
    /\ a \in Passed \ Lent
    /\ mem' = [mem EXCEPT ![a] = Cell(f)]
    /\ UNCHANGED lifecycleVars
    /\ UNCHANGED threadVars
    /\ UNCHANGED facadeVars

\* The foreign side frees a cell it passed earlier and has not lent to a
\* running call.
ForeignFree(a) ==
    /\ a \in Passed \ Lent
    /\ mem[a].live
    /\ mem' = [mem EXCEPT ![a].live = FALSE]
    /\ UNCHANGED lifecycleVars
    /\ UNCHANGED threadVars
    /\ UNCHANGED facadeVars

\* -------------------------------------------------------- specifications
\* The foreign library calls only what it was given: the client and server
\* marshalers once a callback table was handed to init, the scanner
\* marshalers once RegisterCallbacks was invoked.
Callable(cb) ==
    IF Marshaler(cb).cat = "scanner" THEN wired # {} ELSE handed # {}

\* Marshalers the foreign threads of Spec invoke.
SpecCbs == {"gc_register_client_cb", "gs_mtu_changed_cb",
            "gdscan_on_batch_scan_threshold_crossed"}

ForeignCallback(t, seeds) ==
    \E cb \in SpecCbs : \E a \in ArgChoices(cb, mem, seeds) :
        Callable(cb) /\ Invoke(t, cb, a, MaxCalls)

\* Two facades whose initialize calls race, beside one foreign thread.
Next ==
    \/ \E g \in Gatts : Initialize(g)
    \/ ForeignCallback(1, Seeds)
    \/ Lookup(1)
    \/ HandlerEnter(1)
    \/ HandlerReturn(1)

Spec == Init /\ [][Next]_vars

\* One facade, beside foreign threads that invoke marshalers in parallel.
NextConcurrent ==
    \/ Initialize(1)
    \/ \E t \in Threads : ForeignCallback(t, {0})
    \/ \E t \in Threads : Lookup(t)
    \/ \E t \in Threads : HandlerEnter(t)
    \/ \E t \in Threads : HandlerReturn(t)

SpecConcurrent == Init /\ [][NextConcurrent]_vars

\* One marshaler invocation followed from the call to what the consumer holds
\* afterwards: any marshaler, called directly at any time (bound or not), on
\* one thread beside one facade, the foreign memory reused and freed later.
DirectCall(t) ==
    \E cb \in Cbs : \E a \in ArgChoices(cb, mem, Seeds) : Invoke(t, cb, a, 1)

NextDirect ==
    \/ Initialize(1)
    \/ DirectCall(1)
    \/ Lookup(1)
    \/ HandlerEnter(1)
    \/ HandlerReturn(1)
    \/ \E a \in Addrs, f \in Fills : ForeignWrite(a, f)
    \/ \E a \in Addrs : ForeignFree(a)

SpecDirect == Init /\ [][NextDirect]_vars

\* ------------------------------------------------------------- helpers
Min(S) == CHOOSE x \in S : \A y \in S : x <= y

AttemptsFor(c) == {i \in 1..Len(attempts) : attempts[i].cat = c}
Winners(c) == {i \in AttemptsFor(c) : attempts[i].outcome = "ok"}
\* The handler whose registration for c succeeded first.
FirstBound(c) == IF Winners(c) = {} THEN NoHandler ELSE attempts[Min(Winners(c))].h

\* Positions of invocation id in the consumer's log of category c.
Deliveries(c, id) == {k \in 1..Len(delivered[c]) : delivered[c][k].id = id}
DeliveryCount(id) == Cardinality(UNION {{<<c, k>> : k \in Deliveries(c, id)} : c \in Categories})
InProgress(id) == tcall[calls[id].t] = id /\ tpc[calls[id].t] # "idle"
CallCat(id) == Marshaler(calls[id].cb).cat

\* ---------------------------------------------------------------- claims
\* C1: for each category, once a handler is bound every later registration
\* attempt reports a failure (initialize panics), the handler bound first
\* stays the one in the registry, and it is the one every callback of that
\* category is delivered to.
C1_FirstHandlerStaysBound ==
    \A c \in Categories :
        /\ dispatchers[c] = FirstBound(c)
        /\ \A i \in AttemptsFor(c) :
               (\E j \in AttemptsFor(c) : j < i) =>
                   /\ attempts[i].outcome = "panic"
                   /\ dispatchers[c] # attempts[i].h
        /\ \A k \in 1..Len(delivered[c]) :
               /\ delivered[c][k].h = FirstBound(c)
               /\ delivered[c][k].h # NoHandler

\* C1 witness: a second registration for the category had failed when a
\* callback of the category was delivered, to the handler bound first.
C1_Witness ==
    \E c \in Categories : \E k \in 1..Len(delivered[c]) :
        /\ delivered[c][k].rejected
        /\ delivered[c][k].h = attempts[Min(AttemptsFor(c))].h

\* C2: whenever a callback table has been handed to the foreign init, or
\* RegisterCallbacks has been invoked, all three handlers are bound; so a
\* marshaler that runs finds the handler of its category.
C2_BoundBeforeHandOver ==
    /\ (handed # {} \/ wired # {}) =>
           \A c \in Categories : dispatchers[c] # NoHandler
    /\ \A g \in Gatts :
           ipc[g] \in {"in_init", "register_callbacks"} =>
               \A c \in Categories : dispatchers[c] = HandlerOf(g, icalls[g])
    /\ \A t \in Threads :
           tpc[t] # "idle" =>
               /\ dispatchers[CatOf(t)] # NoHandler
               /\ tpc[t] # "panicked"

\* C2 witness: a callback is inside its handler while the foreign init call
\* that received the table is still running.
C2_Witness ==
    \E g \in Gatts, t \in Threads : ipc[g] = "in_init" /\ tpc[t] = "in_handler"

\* The event a marshaler of the given shape must produce from its arguments,
\* read off the foreign signatures: gc_register_client_cb(status, client_if,
\* uuid) gives RegisterClient(status, client_if, *uuid), and so on.
C3_Expected(call) ==
    CASE call.cb = "gc_register_client_cb" ->
             [variant |-> "RegisterClient",
              fields  |-> <<call.args[1], call.args[2],
                            Own(call.at[call.args[3].v[1]].data)>>]
      [] call.cb = "gs_mtu_changed_cb" ->
             [variant |-> "MtuChanged", fields |-> <<call.args[1], call.args[2]>>]
      [] call.cb = "gdscan_on_batch_scan_threshold_crossed" ->
             [variant |-> "OnBatchScanThresholdCrossed", fields |-> <<call.args[1]>>]

C4_UnboundDispatchIsFatal ==
    /\ \A id \in 1..Len(calls) :
           LET t == calls[id].t IN
           (DeliveryCount(id) = 0 /\ ~(tcall[t] = id /\ tpc[t] \in {"lookup", "dispatch"}))
               => (tcall[t] = id /\ tpc[t] = "panicked" /\ id \notin returned)
    /\ \A t \in Threads :
           /\ tpc[t] = "panicked" => (tgot[t] = NoHandler /\ DeliveryCount(tcall[t]) = 0)
           /\ tpc[t] \in {"dispatch", "in_handler"} => tgot[t] # NoHandler

\* C4 witness: a marshaler was invoked while its category had no handler and
\* panicked, the event delivered to nobody.
C4_Witness ==
    \E t \in Threads :
        /\ tcall[t] # 0
        /\ tpc[t] = "panicked"
        /\ dispatchers[CatOf(t)] = NoHandler
        /\ DeliveryCount(tcall[t]) = 0

SameCat(a, b) == CallCat(a) = CallCat(b)
Before(a, b) ==
    /\ Deliveries(CallCat(a), a) # {}
    /\ \A ka \in Deliveries(CallCat(a), a), kb \in Deliveries(CallCat(b), b) : ka < kb

\* C5: of two invocations of one category made on the same thread, the
\* handler observes the earlier one's event before the later one's.
C5_SameThreadOrder ==
    \A a, b \in 1..Len(calls) :
        (a < b /\ calls[a].t = calls[b].t /\ SameCat(a, b) /\ DeliveryCount(b) > 0)
            => Before(a, b)

\* C5 witness: two invocations of one category on one thread, both delivered.
C5_Witness ==
    \E a, b \in 1..Len(calls) :
        /\ a < b /\ calls[a].t = calls[b].t /\ SameCat(a, b)
        /\ DeliveryCount(a) = 1 /\ DeliveryCount(b) = 1

\* C6 as stated: of two invocations of one category, from whatever threads,
\* the one that began first has its event delivered first.
C6_InvocationOrder ==
    \A a, b \in 1..Len(calls) :
        (a < b /\ SameCat(a, b) /\ DeliveryCount(b) > 0) => Before(a, b)

\* C6 amended: of two invocations of one category, from whatever threads, if
\* the first returned before the second began then its event is delivered
\* first.
C6_ReturnedBeforeBegunOrder ==
    \A a, b \in 1..Len(calls) :
        (SameCat(a, b) /\ a \in calls[b].prior) =>
            /\ DeliveryCount(a) = 1
            /\ \A ka \in Deliveries(CallCat(a), a), kb \in Deliveries(CallCat(b), b) :
                   ka < kb

\* C6 witness: two invocations of one category on different threads, the
\* first returned before the second began, both delivered.
C6_Witness ==
    \E a, b \in 1..Len(calls) :
        /\ SameCat(a, b) /\ calls[a].t # calls[b].t
        /\ a \in calls[b].prior
        /\ DeliveryCount(b) = 1

\* Facades that made a registration attempt which found the category bound.
Losers == {attempts[i].h[1] : i \in {j \in 1..Len(attempts) : attempts[j].already}}

\* C7: of the registration attempts made for a category, racing or not,
\* exactly one binds its handler; every other one reports its error (the
\* facade panics) and leaves the winner's handler in the registry.
C7_RegistrationAtomic ==
    /\ \A c \in Categories :
           /\ AttemptsFor(c) # {} => Cardinality(Winners(c)) = 1
           /\ AttemptsFor(c) = {} => dispatchers[c] = NoHandler
           /\ \A i \in Winners(c) : dispatchers[c] = attempts[i].h
           /\ \A i \in AttemptsFor(c) \ Winners(c) :
                  /\ attempts[i].outcome = "panic"
                  /\ dispatchers[c] # attempts[i].h
    /\ \A g \in Losers : ipc[g] = "panicked"
    /\ \A g \in Gatts :
           ipc[g] \in {"set_server", "set_scanner", "call_init", "in_init",
                       "register_callbacks"} => g \notin Losers

\* C7 witness: one facade's attempt lost while the other facade was still
\* inside its initialize call.
C7_Witness ==
    \E g1, g2 \in Gatts :
        /\ g1 # g2
        /\ ipc[g1] \in {"set_server", "set_scanner"}
        /\ ipc[g2] = "panicked"
        /\ dispatchers["client"] = HandlerOf(g1, 1)

\* What the consumer reads through field f of an event it holds, now.
Observed(f) ==
    IF f.k = "ptr" THEN [i \in 1..CellLen |-> ReadElem(mem, f.v[1], i)] ELSE f.v

\* The value of argument i of an invocation at the moment of the call, its
\* pointee included.
ValueAtCall(call, i) ==
    LET ps == Marshaler(call.cb).params
        a  == call.args[i].v[1]
    IN  CASE ps[i] \in {"struct", "raw"} -> call.at[a].data
          [] ps[i] = "buf" ->
                 IF call.args[i + 1].v[1] = 0 THEN <<>>
                 ELSE SubSeq(call.at[a].data, 1, call.args[i + 1].v[1])
          [] OTHER -> call.args[i].v

AllDelivered == UNION {{delivered[c][k] : k \in 1..Len(delivered[c])} : c \in Categories}
ParamsOf(d) == Marshaler(calls[d.id].cb).params
KindPositions(ps, kd) == {i \in 1..Len(ps) : ps[i] = kd}

\* C8 as stated: whatever the callback shape, no field of a delivered event
\* is a raw pointer, and what the consumer reads through each field is the
\* value the argument had at the moment of the call, whatever the foreign
\* side did to its memory since.
C8_CopyNotAlias ==
    \A d \in AllDelivered :
        \A i \in 1..Len(d.ev.fields) :
            /\ d.ev.fields[i].k # "ptr"
            /\ Observed(d.ev.fields[i]) = ValueAtCall(calls[d.id], i)

\* C9: an argument that points to a fixed-size structure reaches the event
\* as a copy of the structure as it was at the call, and stays that copy
\* when the foreign side overwrites or frees the structure.
C9_StructCopiedByValue ==
    \A d \in AllDelivered :
        \A i \in KindPositions(ParamsOf(d), "struct") :
            LET a == calls[d.id].args[i].v[1] IN
            /\ d.ev.fields[i] = Own(calls[d.id].at[a].data)
            /\ Observed(d.ev.fields[i]) = calls[d.id].at[a].data

\* C9 witness: a read-characteristic completion delivered the bytes its
\* structure held at the call, and the foreign side has since overwritten
\* the structure with other bytes.
C9_Witness ==
    \E d \in AllDelivered :
        LET a == calls[d.id].args[3].v[1] IN
        /\ calls[d.id].cb = "gc_read_characteristic_cb"
        /\ d.id \in returned
        /\ d.ev.fields[3] = Own(Pattern(16))
        /\ mem[a].live
        /\ mem[a].data = Pattern(32)

\* C10: a pointer+length pair of length 0 gives an empty owned buffer, and
\* the conversion of that argument dereferences nothing, the pointer being
\* null or not.
C10_ZeroLengthIsEmpty ==
    \A id \in 1..Len(calls) :
        \A i \in KindPositions(Marshaler(calls[id].cb).params, "buf") :
            calls[id].args[i + 1].v[1] = 0 =>
                /\ calls[id].ev.fields[i] = Own(<<>>)
                /\ \A r \in calls[id].reads : r[1] # i
                /\ \A d \in AllDelivered : d.id = id => d.ev.fields[i] = Own(<<>>)

\* C10 witness: a write request with a null value pointer and length 0 was
\* delivered with an empty buffer, and so was a GATT database of count 0.
C10_Witness ==
    \E d \in AllDelivered :
        /\ calls[d.id].cb \in {"gs_request_write_characteristic_cb", "gc_get_gatt_db_cb"}
        /\ \E i \in KindPositions(ParamsOf(d), "buf") :
               /\ calls[d.id].args[i] = Ptr(Null)
               /\ calls[d.id].args[i + 1] = Val(0)
               /\ d.ev.fields[i] = Own(<<>>)

\* ------------------------------------------------------------ GattStatus
\* `#[repr(u32)] pub enum GattStatus`: the variants with their codes, in
\* declaration order.
GattStatus ==
    << <<"Success", 0>>, <<"InvalidHandle", 1>>, <<"ReadNotPermit", 2>>,
       <<"WriteNotPermit", 3>>, <<"InvalidPdu", 4>>, <<"InsufAuthentication", 5>>,
       <<"ReqNotSupported", 6>>, <<"InvalidOffset", 7>>, <<"InsufAuthorization", 8>>,
       <<"PrepareQFull", 9>>, <<"NotFound", 10>>, <<"NotLong", 11>>,
       <<"InsufKeySize", 12>>, <<"InvalidAttrLen", 13>>, <<"ErrUnlikely", 14>>,
       <<"InsufEncryption", 15>>, <<"UnsupportGrpType", 16>>, <<"InsufResource", 17>>,
       <<"DatabaseOutOfSync", 18>>, <<"ValueNotAllowed", 19>>,
       <<"IllegalParameter", 135>>, <<"TooShort", 127>>, <<"NoResources", 128>>,
       <<"InternalError", 129>>, <<"WrongState", 130>>, <<"DbFull", 131>>,
       <<"Busy", 132>>, <<"Error", 133>>, <<"CmdStarted", 134>>, <<"Pending", 136>>,
       <<"AuthFail", 137>>, <<"More", 138>>, <<"InvalidCfg", 139>>,
       <<"ServiceStarted", 140>>, <<"EncryptedNoMitm", 141>>, <<"NotEncrypted", 142>>,
       <<"Congested", 143>>, <<"DupReg", 144>>, <<"AlreadyOpen", 145>>,
       <<"Cancel", 146>>, <<"CccCfgErr", 253>>, <<"PrcInProgress", 254>>,
       <<"OutOfRange", 255>> >>

\* Foreign integers given to the conversion: the u32 codes around the
\* enumeration's range, and the i32 values below it.
StatusProbes == (0 - 3)..258

\* derive(FromPrimitive): the first variant, in declaration order, whose
\* discriminant equals n; none when no discriminant does.
GattStatusMatches(n) == {i \in 1..Len(GattStatus) : GattStatus[i][2] = n}
GattStatusFromOrError(n) ==
    IF GattStatusMatches(n) = {} THEN <<"Error">>
    ELSE <<GattStatus[Min(GattStatusMatches(n))][1]>>
GattStatusFromPrimitive(n) ==
    IF GattStatusMatches(n) = {} THEN <<>>
    ELSE <<GattStatus[Min(GattStatusMatches(n))][1]>>

\* derive(ToPrimitive): the variant's discriminant.
GattStatusToPrimitive(v) ==
    GattStatus[CHOOSE i \in 1..Len(GattStatus) : GattStatus[i][1] = v][2]

\* A foreign integer is converted to GattStatus and, when a variant came
\* out, back to an integer.
GattStatusConvert(n) ==
    LET v == GattStatusFromPrimitive(n) IN
    /\ conv' = [code |-> n, variant |-> v,
                back |-> IF v = <<>> THEN <<>> ELSE <<GattStatusToPrimitive(v[1])>>,
                done |-> TRUE]
    /\ UNCHANGED <<queried, fcall, made, mem>>
    /\ UNCHANGED lifecycleVars
    /\ UNCHANGED threadVars

GattStatusCodes == {GattStatus[i][2] : i \in 1..Len(GattStatus)}

\* C11: a code GattStatus defines converts to a variant and back to the same
\* code, no two variants share a code, and an integer that is no defined code
\* converts to no variant.
C11_StatusRoundTrip ==
    /\ \A i, j \in 1..Len(GattStatus) :
           i # j => GattStatus[i][1] # GattStatus[j][1] /\ GattStatus[i][2] # GattStatus[j][2]
    /\ conv.done =>
           IF conv.code \in GattStatusCodes
           THEN conv.variant # <<>> /\ conv.back = <<conv.code>>
           ELSE conv.variant = <<>> /\ conv.back = <<>>

\* C11 witness: 0x87, declared out of numeric order, went to IllegalParameter
\* and back.
C11_Witness ==
    /\ conv.done
    /\ conv.code = 135
    /\ conv.variant = <<"IllegalParameter">>
    /\ conv.back = <<135>>

\* A foreign integer of any origin is converted to GattStatus.
NextStatus == \E n \in StatusProbes : GattStatusConvert(n)

SpecStatus == Init /\ [][NextStatus]_vars

\* -------------------------------------------------------- Profile Facade
\* The status-returning methods of GattClient and GattServer with the
\* conversion each applies to the foreign return code and the pointer
\* argument each hands to the foreign call: none, one that points into what
\* the caller lent for the call ("caller": &Uuid, &RawAddress, a slice, a
\* parameter block), or the optional filter of search_service ("option").
FacadeMethods ==
    {<<"GattClient::register_client", "from", "caller">>,
     <<"GattClient::unregister_client", "from", "none">>,
     <<"GattClient::connect", "from", "caller">>,
     <<"GattClient::disconnect", "from", "caller">>,
     <<"GattClient::refresh", "from", "caller">>,
     <<"GattClient::search_service", "from", "option">>,
     <<"GattClient::read_characteristic", "from", "none">>,
     <<"GattClient::read_using_characteristic_uuid", "from", "caller">>,
     <<"GattClient::write_characteristic", "from", "caller">>,
     <<"GattClient::read_descriptor", "from", "none">>,
     <<"GattClient::write_descriptor", "from", "caller">>,
     <<"GattClient::execute_write", "from", "none">>,
     <<"GattClient::register_for_notification", "from", "caller">>,
     <<"GattClient::deregister_for_notification", "from", "caller">>,
     <<"GattClient::read_remote_rssi", "from", "caller">>,
     <<"GattClient::configure_mtu", "from", "none">>,
     <<"GattClient::conn_parameter_update", "from", "caller">>,
     <<"GattClient::set_preferred_phy", "from", "caller">>,
     <<"GattClient::read_phy", "from_i32_unwrap", "none">>,
     <<"GattClient::test_command", "from", "caller">>,
     <<"GattClient::get_gatt_db", "from", "none">>,
     <<"GattServer::register_server", "from", "caller">>,
     <<"GattServer::unregister_server", "from", "none">>,
     <<"GattServer::connect", "from", "caller">>,
     <<"GattServer::disconnect", "from", "caller">>,
     <<"GattServer::add_service", "from", "caller">>,
     <<"GattServer::stop_service", "from", "none">>,
     <<"GattServer::delete_service", "from", "none">>,
     <<"GattServer::send_indication", "from", "caller">>,
     <<"GattServer::send_response", "from", "caller">>,
     <<"GattServer::set_preferred_phy", "from", "caller">>}

\* The codes btif::BtStatus defines; a variant is written <<code>>.
BtStatusCodes == 0..4
\* What the foreign side may return: the defined codes and some others.
FacadeRcs == (0 - 1)..6

\* BtStatus::from_i32 (derive(FromPrimitive)): Some(variant) or None.
BtStatusFromI32(rc) == IF rc \in BtStatusCodes THEN <<rc>> ELSE <<>>

\* `.unwrap()` on the converted status: the variant, or a panic on None.
UnwrapOrFail(opt) ==
    IF opt = <<>> THEN [out |-> <<1>>, outcome |-> "returned"]
    ELSE [out |-> opt, outcome |-> "returned"]
Unwrap(opt) ==
    IF opt = <<>> THEN [out |-> <<>>, outcome |-> "panic"]
    ELSE [out |-> opt, outcome |-> "returned"]

\* BtStatus::from(bt_status_t): the variant of a defined code; an unknown
\* code is a contract violation.
BtStatusFrom(rc) ==
    IF rc \in BtStatusCodes THEN [out |-> <<rc>>, outcome |-> "returned"]
    ELSE [out |-> <<>>, outcome |-> "panic"]

\* Foreign calls a facade method issues for one invocation: its body is one
\* ccall! (mutcxxcall! for read_phy), whatever that call returns.
ForeignCallsRetryingRejection(m, rc) == IF rc = 0 THEN 1 ELSE 2
ForeignCalls(m, rc) == 1

\* Where the pointer a method hands to the foreign call points. A borrowed
\* argument lives in the caller's frame. search_service builds its pointer
\* in `match filter_uuid { None => null(), Some(uuid) => &uuid }`: null, or
\* the address of the arm's binding, whose storage ends with the arm.
PointersPassed(m, some) ==
    CASE m[3] = "caller" -> {[storage |-> "caller"]}
      [] m[3] = "option" -> IF some THEN {[storage |-> "match_arm"]} ELSE {}
      [] OTHER           -> {}

\* A method that, admitted by the foreign side, hands the completion to the
\* consumer itself.
FacadeCallCompletesInline(m, rc) ==
    /\ fcall' = [method |-> m[1], rc |-> rc, out |-> <<rc>>, outcome |-> "returned",
                 issued |-> 1, ptrs |-> {}]
    /\ delivered' = [delivered EXCEPT !["client"] =
           Observe(@, [id |-> 0, by |-> 0, h |-> dispatchers["client"],
                       ev |-> [variant |-> "RegisterClient", fields |-> <<>>],
                       rejected |-> FALSE])]
    /\ UNCHANGED <<queried, conv, made, mem>>
    /\ UNCHANGED lifecycleVars
    /\ UNCHANGED <<tpc, tcall, tgot, calls, hLock, returned>>

\* A facade method forwards the call and converts what the foreign side
\* returned.
FacadeCall(m, rc) ==
    LET r == IF m[2] = "from_i32_unwrap" THEN Unwrap(BtStatusFromI32(rc))
             ELSE BtStatusFrom(rc)
    IN  /\ \E some \in BOOLEAN :
               fcall' = [method |-> m[1], rc |-> rc, out |-> r.out, outcome |-> r.outcome,
                         issued |-> ForeignCalls(m, rc), ptrs |-> PointersPassed(m, some)]
        /\ UNCHANGED <<queried, conv, made, mem>>
        /\ UNCHANGED lifecycleVars
        /\ UNCHANGED threadVars

NextFacade == \E m \in FacadeMethods : \E rc \in FacadeRcs : FacadeCall(m, rc)

SpecFacade == Init /\ [][NextFacade]_vars

\* C12: a status-returning facade method returns the variant of the code the
\* foreign side returned when that code is defined, and panics, returning no
\* status, when it is not; read_phy like the others.
C12_UnknownCodeIsFatal ==
    fcall.outcome # "none" =>
        IF fcall.rc \in BtStatusCodes
        THEN fcall.outcome = "returned" /\ fcall.out = <<fcall.rc>>
        ELSE fcall.outcome = "panic" /\ fcall.out = <<>>

\* C12 witness: read_phy was given a code BtStatus does not define and
\* panicked.
C12_Witness ==
    /\ fcall.method = "GattClient::read_phy"
    /\ fcall.rc \notin BtStatusCodes
    /\ fcall.outcome = "panic"

\* ------------------------------------------------------------- lifecycle
\* `pub fn is_initialized(&self) -> bool { self.is_init }`
is_initialized_retained(g) == retained[g] # NoTables
is_initialized(g) == is_init[g]

\* The application queries a facade it is not inside initialize of
\* (initialize borrows the facade mutably until it returns).
IsInitialized(g) ==
    /\ ipc[g] = "idle"
    /\ queried' = [queried EXCEPT ![g] = <<is_initialized(g), icalls[g]>>]
    /\ UNCHANGED <<conv, fcall, made, mem>>
    /\ UNCHANGED lifecycleVars
    /\ UNCHANGED threadVars

\* Facade methods the application of SpecLifecycle calls between the
\* lifecycle operations, with the code the foreign side returns to them.
LifecycleFacadeCalls ==
    {<<"GattClient::register_client", "from", "caller">>,
     <<"GattClient::read_phy", "from_i32_unwrap", "none">>,
     <<"GattServer::send_response", "from", "caller">>}
LifecycleFacadeRcs == {0, 4}

\* Two facades: initialize (a second time too), is_initialized and facade
\* methods, in any order.
NextLifecycle ==
    \/ \E g \in Gatts : Initialize(g)
    \/ \E g \in Gatts : IsInitialized(g)
    \/ \E m \in LifecycleFacadeCalls : \E rc \in LifecycleFacadeRcs : FacadeCall(m, rc)

SpecLifecycle == Init /\ [][NextLifecycle]_vars

\* Where facade g stands in the lifecycle, by what its initialize calls did.
Phase(g) ==
    IF rcs[g] # NoResult
    THEN IF rcs[g][1] = 0 THEN "Initialized" ELSE "FailedInit"
    ELSE IF ipc[g] \in {"set_server", "set_scanner", "call_init", "in_init"}
         THEN "Initializing"
         ELSE "Uninitialized"

\* C13: is_initialized() is true exactly in Initialized; from Uninitialized
\* a facade only enters Initializing, from there Initialized or FailedInit
\* (or back, when registration aborts), and Initialized and FailedInit are
\* never left, whatever is called afterwards, another initialize included.
C13_EndStatesAbsorbing ==
    /\ [](\A g \in Gatts : is_initialized(g) <=> Phase(g) = "Initialized")
    /\ [][\A g \in Gatts :
            /\ Phase(g) \in {"Initialized", "FailedInit"} =>
                   /\ Phase(g)' = Phase(g)
                   /\ is_initialized(g)' = is_initialized(g)
            /\ Phase(g) = "Uninitialized" =>
                   Phase(g)' \in {"Uninitialized", "Initializing"}]_vars

\* C13 witness: a facade whose initialize ended in FailedInit was given
\* another initialize call, which panicked, and still reports false.
C13_Witness ==
    \E g \in Gatts :
        /\ Phase(g) = "FailedInit"
        /\ result[g] = <<FALSE>>
        /\ icalls[g] = 2
        /\ ipc[g] = "panicked"
        /\ ~is_initialized(g)

\* The initialize call facade g is in, or made last.
CurrentCall(g) == <<g, icalls[g]>>

\* C14: an initialize call made while a category is bound panics in its
\* registration step; the step that panics leaves is_initialized(), the
\* retained tables, the tables handed over and the scanner wiring as they
\* were, and the aborted call never hands a table over, is never wired and
\* retains nothing.
C14_BoundCategoryAbortsInitialize ==
    /\ [][\A g \in Gatts :
            (/\ ipc[g] = "idle"
             /\ ipc'[g] # "idle"
             /\ \E c \in Categories : dispatchers[c] # NoHandler)
            => ipc'[g] = "panicked"]_vars
    /\ [][\A g \in Gatts :
            (ipc[g] # "panicked" /\ ipc'[g] = "panicked") =>
                /\ ipc[g] \in {"idle", "set_server", "set_scanner"}
                /\ is_initialized(g)' = is_initialized(g)
                /\ UNCHANGED <<is_init, retained, handed, wired, rcs, result>>]_vars
    /\ [](\A g \in Gatts :
            ipc[g] = "panicked" =>
                /\ CurrentCall(g) \notin handed \cup wired
                /\ retained[g] # CurrentCall(g))

\* C14 witness: an initialized facade was given a second initialize call,
\* which panicked; the facade still reports true and retains the tables of
\* its first call.
C14_Witness ==
    \E g \in Gatts :
        /\ ipc[g] = "panicked"
        /\ icalls[g] = 2
        /\ is_initialized(g)
        /\ retained[g] = <<g, 1>>
        /\ handed = {<<g, 1>>}

\* C15: is_initialized() changes nothing; on a facade no initialize call was
\* made on it returns false; on a facade whose initialize completed it
\* returns true exactly when the foreign init returned 0, the value that
\* initialize returned.
C15_IsInitializedPureQuery ==
    /\ [][\A g \in Gatts :
            queried'[g] # queried[g] =>
                /\ UNCHANGED lifecycleVars
                /\ UNCHANGED threadVars
                /\ UNCHANGED <<conv, fcall, made, mem>>]_vars
    /\ [](\A g \in Gatts :
            queried[g] # NoResult =>
                IF queried[g][2] = 0
                THEN queried[g][1] = FALSE
                ELSE /\ rcs[g] # NoResult
                     /\ queried[g][1] = (rcs[g][1] = 0)
                     /\ result[g] = <<queried[g][1]>>)

\* C15 witness: a facade whose foreign init returned 0 has returned true
\* from initialize and from is_initialized().
C15_Witness ==
    \E g \in Gatts :
        /\ rcs[g] = <<0>>
        /\ result[g] = <<TRUE>>
        /\ queried[g] = <<TRUE, 1>>

AllBound == \A c \in Categories : dispatchers[c] # NoHandler

\* C16: is_initialized() is true on a facade exactly when the foreign init
\* returned 0 to it, and then all three categories are bound and its
\* callback table was handed over; after any other outcome (a panic during
\* registration, a non-zero return) it is false.
C16_NoPartialSuccess ==
    \A g \in Gatts :
        /\ is_initialized(g) <=> rcs[g] = <<0>>
        /\ is_initialized(g) => AllBound /\ retained[g] \in handed
        /\ (ipc[g] = "panicked" /\ rcs[g] = NoResult) => ~is_initialized(g)

\* C16 witness: one facade is initialized with all three categories bound
\* while the other, whose registration panicked, reports uninitialized.
C16_Witness ==
    \E g, o \in Gatts :
        /\ is_initialized(g)
        /\ AllBound
        /\ result[g] = <<TRUE>>
        /\ ipc[o] = "panicked"
        /\ rcs[o] = NoResult
        /\ ~is_initialized(o)

\* The boxed tables of initialize call tb are owned by someone: by the
\* locals of the call, while it is inside the foreign init, or by the fields
\* of the facade. A table is named by the call that allocated it; moving its
\* Box does not move the allocation.
Held(tb) ==
    \E g \in Gatts :
        \/ retained[g] = tb
        \/ ipc[g] = "in_init" /\ CurrentCall(g) = tb

\* C17: every table handed to the foreign init stays allocated, owned by the
\* running call and then by the facade, and once a facade retains tables no
\* step (is_initialized, a facade method, another initialize) replaces or
\* drops them.
C17_HandedTablesRetained ==
    /\ [](\A tb \in handed : Held(tb))
    /\ [](\A g \in Gatts :
            (ipc[g] \in {"register_callbacks", "idle"} /\ icalls[g] > 0)
                => retained[g] \in handed)
    /\ [][\A g \in Gatts :
            retained[g] # NoTables => retained'[g] = retained[g]]_vars

\* C17 witness: the foreign init refused a facade's table, the facade went
\* on to be queried, to make a facade call and to be given another
\* initialize call, and it still retains the table it handed over.
C17_Witness ==
    \E g \in Gatts :
        /\ rcs[g] = <<1>>
        /\ retained[g] = <<g, 1>>
        /\ <<g, 1>> \in handed
        /\ queried[g] = <<FALSE, 1>>
        /\ fcall.outcome = "returned"
        /\ ipc[g] = "panicked"

\* C18: an event reaches one consumer only, the one bound for the category
\* of the marshaler that produced it, and a step that binds or dispatches in
\* one category changes no binding of another category.
C18_RoutedByCategory ==
    /\ [](\A c \in Categories : \A k \in 1..Len(delivered[c]) :
            /\ CallCat(delivered[c][k].id) = c
            /\ delivered[c][k].h = FirstBound(c)
            /\ delivered[c][k].h = dispatchers[c])
    /\ [](\A id \in 1..Len(calls) : DeliveryCount(id) <= 1)
    /\ [][\A c \in Categories :
            (dispatchers'[c] # dispatchers[c] \/ delivered'[c] # delivered[c]) =>
                \A o \in Categories \ {c} :
                    /\ dispatchers'[o] = dispatchers[o]
                    /\ delivered'[o] = delivered[o]]_vars
    /\ [][delivered' # delivered => dispatchers' = dispatchers]_vars

\* C18 witness: a server marshaler and a scanner marshaler, invoked on two
\* threads, each reached its own category's consumer and the client
\* consumer saw nothing.
C18_Witness ==
    /\ Len(delivered["server"]) = 1
    /\ Len(delivered["scanner"]) = 1
    /\ delivered["client"] = <<>>
    /\ calls[delivered["server"][1].id].cb = "gs_mtu_changed_cb"
    /\ calls[delivered["scanner"][1].id].cb = "gdscan_on_batch_scan_threshold_crossed"
    /\ delivered["server"][1].by # delivered["scanner"][1].by

\* C19 as stated: a marshaler whose handler is executing holds no lock, and
\* a marshaler that has finished its registry lookup on another thread can
\* invoke its handler without waiting for a running handler to return.
C19_NoLockBeyondLookup ==
    /\ \A t \in Threads : tpc[t] = "in_handler" => \A c \in Categories : hLock[c] # t
    /\ \A t \in Threads : tpc[t] = "dispatch" => hLock[CatOf(t)] = 0

\* ------------------------------------------------------------ re-entrancy
\* One foreign thread, two frames: frame 1 is a marshaler the foreign
\* library invokes on the thread, frame 2 a marshaler it invokes on the same
\* thread while the handler of frame 1 is running (the handler called back
\* into the foreign library, which called back in turn).
ReentrantCallback ==
    /\ tpc[1] = "in_handler"
    /\ ForeignCallback(2, {0})

\* The handler of frame 1 returns once the call it made has returned.
HandlerReturnOuter ==
    /\ tpc[2] = "idle"
    /\ HandlerReturn(1)

\* Frame 2 locks the dispatcher Mutex its own thread holds in frame 1:
\* std::sync::Mutex::lock either blocks for ever or panics.
RelockPanic ==
    /\ tpc[2] = "dispatch"
    /\ hLock[CatOf(2)] = 1
    /\ tpc' = [tpc EXCEPT ![2] = "panicked"]
    /\ UNCHANGED <<tcall, tgot, calls, delivered, hLock, returned, mem>>
    /\ UNCHANGED lifecycleVars
    /\ UNCHANGED facadeVars

NextReentrant ==
    \/ Initialize(1)
    \/ ForeignCallback(1, {0})
    \/ Lookup(1)
    \/ HandlerEnter(1)
    \/ HandlerReturnOuter
    \/ ReentrantCallback
    \/ Lookup(2)
    \/ HandlerEnter(2)
    \/ HandlerReturn(2)
    \/ RelockPanic

\* The thread keeps running and the consumer's handlers return.
ReentrantFairness ==
    /\ WF_vars(Lookup(1))
    /\ WF_vars(HandlerEnter(1))
    /\ WF_vars(HandlerReturnOuter)
    /\ WF_vars(Lookup(2))
    /\ WF_vars(HandlerEnter(2))
    /\ WF_vars(HandlerReturn(2))

SpecReentrant == Init /\ [][NextReentrant]_vars /\ ReentrantFairness

\* C20 as stated: every marshaler invocation eventually returns, an
\* invocation made from inside a running handler on the same thread
\* included.
C20_EveryInvocationReturns ==
    \A id \in 1..MaxCalls : (Len(calls) >= id) ~> (id \in returned)

\* C21: a facade method invocation issues one foreign call and returns the
\* status of the code that call returned, a rejection included, without a
\* second attempt; the step changes nothing of the dispatch registry, the
\* lifecycle state or the retained tables.
C21_FacadeCallForwardsOnce ==
    /\ [](fcall.outcome # "none" =>
            /\ fcall.issued = 1
            /\ fcall.rc \in BtStatusCodes =>
                   fcall.outcome = "returned" /\ fcall.out = <<fcall.rc>>)
    /\ [][fcall' # fcall =>
            /\ UNCHANGED <<dispatchers, attempts>>
            /\ UNCHANGED <<ipc, icalls, is_init, rcs, result>>
            /\ UNCHANGED <<retained, handed, wired>>]_vars

\* C21 witness: on an initialized facade a method was rejected by the
\* foreign side; it issued one call and returned the rejection.
C21_Witness ==
    /\ \E g \in Gatts : is_initialized(g) /\ retained[g] = <<g, 1>>
    /\ fcall.method = "GattClient::register_client"
    /\ fcall.rc = 4
    /\ fcall.issued = 1
    /\ fcall.outcome = "returned"
    /\ fcall.out = <<4>>

\* Storage that outlives the foreign call: what the caller lent to the
\* method is borrowed, unchanged, until the method returns; the binding of a
\* match arm is gone when the arm ends, before the call is issued.
LiveForCall(p) == p.storage = "caller"

\* C22 as stated: every pointer a facade method hands to the foreign side
\* refers to memory that is live and unchanged from the start of the
\* foreign call to its return.
C22_PassedPointersLive ==
    \A p \in fcall.ptrs : LiveForCall(p)

\* ------------------------------------------------------ call and callback
\* Request-style methods the application of SpecSplit calls, admitted by the
\* foreign side.
SplitFacadeCalls ==
    {<<"GattClient::register_client", "from", "caller">>,
     <<"GattClient::read_characteristic", "from", "none">>}
SplitFacadeRcs == {0}

\* One facade whose application issues requests while the foreign library
\* invokes callbacks on its own thread.
NextSplit ==
    \/ Initialize(1)
    \/ \E m \in SplitFacadeCalls : \E rc \in SplitFacadeRcs : FacadeCall(m, rc)
    \/ ForeignCallback(1, {0})
    \/ Lookup(1)
    \/ HandlerEnter(1)
    \/ HandlerReturn(1)

SpecSplit == Init /\ [][NextSplit]_vars

\* C23: a request-style facade method returns an admission status and
\* nothing else, and its step builds no event and invokes no handler; every
\* event a consumer was invoked with is the event of a marshaler invocation
\* made by the foreign library, delivered on that invocation's thread.
C23_CallCallbackSplit ==
    /\ [](\A c \in Categories : \A k \in 1..Len(delivered[c]) :
            /\ delivered[c][k].id \in 1..Len(calls)
            /\ delivered[c][k].ev = calls[delivered[c][k].id].ev
            /\ delivered[c][k].by = calls[delivered[c][k].id].t)
    /\ [](fcall.outcome = "returned" => Len(fcall.out) = 1)
    /\ [][fcall' # fcall =>
            /\ delivered' = delivered
            /\ calls' = calls
            /\ UNCHANGED <<tpc, tcall, hLock, returned>>]_vars

\* C23 witness: register_client returned its admission status, and the
\* consumer received the RegisterClient event from gc_register_client_cb.
C23_Witness ==
    /\ fcall.method = "GattClient::register_client"
    /\ fcall.outcome = "returned"
    /\ Len(delivered["client"]) = 1
    /\ calls[delivered["client"][1].id].cb = "gc_register_client_cb"
    /\ delivered["client"][1].ev.variant = "RegisterClient"
    /\ delivered["client"][1].id \in returned

\* ------------------------------------------------------------- Gatt::new
\* What get_profile_interface can return: null, or the foreign GATT
\* interface.
ProfileLookups == {Null, 1}

\* The sub-facades of a facade, each named as the member of the foreign GATT
\* interface it stands for.
SubFacades == {"client", "server", "scanner", "advertiser"}

\* Gatt::new: no facade for a null lookup; otherwise each sub-facade's raw
\* handle is read from the member of the interface the code names.
GattNew(r) ==
    IF r = Null
    THEN <<>>
    ELSE <<[client     |-> "client",
            server     |-> "server",
            scanner    |-> "scanner",
            advertiser |-> "scanner"]>>

GattNewCall(r) ==
    /\ made' = [done |-> TRUE, r |-> r, facade |-> GattNew(r)]
    /\ UNCHANGED <<queried, conv, fcall, mem>>
    /\ UNCHANGED lifecycleVars
    /\ UNCHANGED threadVars

\* Construction followed by the operations of the facades.
NextNew ==
    \/ \E r \in ProfileLookups : GattNewCall(r)
    \/ NextLifecycle

SpecNew == Init /\ [][NextNew]_vars

\* C24: Gatt::new yields no facade for a null profile lookup; otherwise each
\* sub-facade holds the handle of the member of the foreign GATT interface of
\* its own name, and no later operation changes the handles.
C24_OwnHandles ==
    /\ [](made.done =>
            IF made.r = Null
            THEN made.facade = <<>>
            ELSE /\ Len(made.facade) = 1
                 /\ \A f \in SubFacades : made.facade[1][f] = f)
    /\ [][made' # made => made'.done /\ made'.facade = GattNew(made'.r)]_vars

\* ------------------------------------------------- one handler at a time
\* C25: at most one thread is inside the consumer handler of a category at
\* any moment; a thread enters the handler only when no thread holds the
\* category's Mutex, so the others wait until the handler has returned.
C25_HandlerExecutionsSerialized ==
    /\ [](\A t1, t2 \in Threads :
            (/\ t1 # t2
             /\ tpc[t1] = "in_handler"
             /\ tpc[t2] = "in_handler") => CatOf(t1) # CatOf(t2))
    /\ [](\A t \in Threads : tpc[t] = "in_handler" => hLock[CatOf(t)] = t)
    /\ [][\A t \in Threads :
            (tpc[t] = "dispatch" /\ tpc'[t] = "in_handler") => hLock[CatOf(t)] = 0]_vars

\* C25 witness: thread 1 is inside a category's handler while thread 2 has
\* looked up the same category's dispatcher and waits for the Mutex.
C25_Witness ==
    /\ tpc[1] = "in_handler"
    /\ tpc[2] = "dispatch"
    /\ CatOf(1) = CatOf(2)
    /\ hLock[CatOf(1)] = 1

\* ------------------------------------------ scanner RegisterCallbacks
\* C26: every initialize call that got past handler registration invokes the
\* scanner's RegisterCallbacks once, in a step taken after the foreign init
\* returned and the tables were stored in the facade, whatever the foreign
\* init returned; the call has been wired by the time it returns.
C26_RegisterCallbacksAlways ==
    /\ [](\A tb \in handed :
            \/ tb \in wired
            \/ /\ CurrentCall(tb[1]) = tb
               /\ ipc[tb[1]] \in {"in_init", "register_callbacks"})
    /\ [](\A tb \in wired :
            /\ tb \in handed
            /\ retained[tb[1]] = tb
            /\ rcs[tb[1]] # NoResult)
    /\ [][\A g \in Gatts : \A k \in 1..(MaxCalls + 1) :
            (<<g, k>> \in wired' /\ <<g, k>> \notin wired) =>
                /\ ipc[g] = "register_callbacks"
                /\ ipc'[g] = "idle"
                /\ CurrentCall(g) = <<g, k>>
                /\ retained[g] = <<g, k>>
                /\ rcs[g] # NoResult
                /\ wired' = wired \cup {<<g, k>>}]_vars

\* C26 witness: the foreign init failed, initialize returned false, and the
\* scanner callbacks of that call are wired while is_initialized() is false.
C26_Witness ==
    \E g \in Gatts :
        /\ CurrentCall(g) \in wired
        /\ rcs[g] = <<1>>
        /\ result[g] = <<FALSE>>
        /\ ipc[g] = "idle"
        /\ ~is_initialized(g)

\* ------------------------------------------------- counts kept in events
\* The marshalers that materialise a pointer+count pair and keep the count
\* in the event.
CountedCbs ==
    {"gc_get_gatt_db_cb", "gs_service_added_cb",
     "gs_request_write_characteristic_cb", "gs_request_write_descriptor_cb"}

\* The counts the foreign signature admits, as far as the buffers of the
\* model go: an i32 count can be negative, a usize length cannot.
CountProbes(cb) ==
    IF HasKind(Marshaler(cb).params, "count") THEN (0 - 1)..CellLen ELSE 0..CellLen

CountChoices(cb, m) ==
    LET ps == Marshaler(cb).params IN
    {a \in [seed : {0},
            sp   : IF HasKind(ps, "struct") THEN LiveAddrs(m) ELSE {Null},
            bp   : Addrs \cup {Null},
            n    : CountProbes(cb)] :
        a.n # 0 => a.bp \in LiveAddrs(m)}

\* The number of elements the pointer refers to.
Elements(m, a) == IF a \in LiveAddrs(m) THEN Len(m[a].data) ELSE 0

\* What a marshaler does when the length it gives ptr_to_vec exceeds what the
\* pointer refers to: the read is out of bounds and its behaviour undefined;
\* the allocation of the copy panics, or the read faults. Either way no
\* event is built and the marshaler does not return.
OutOfBoundsOutcomes == {"panicked", "faulted"}

\* The foreign side calls a counted marshaler with a count it may pass.
InvokeCounted(t, cb, a) ==
    LET ps   == Marshaler(cb).params
        args == Args(cb, a)
        b    == CHOOSE i \in 1..Len(ps) : ps[i] = "buf"
    IN  IF PairLen(ps, args, b) <= Elements(mem, a.bp)
        THEN Invoke(t, cb, a, 1)
        ELSE /\ tpc[t] = "idle"
             /\ Len(calls) < 1
             /\ calls' = Append(calls,
                    [t |-> t, cb |-> cb, args |-> args, at |-> mem, prior |-> returned,
                     ev |-> [variant |-> "none", fields |-> <<>>],
                     reads |-> {<<b, a.bp>>}])
             /\ tcall' = [tcall EXCEPT ![t] = Len(calls) + 1]
             /\ \E o \in OutOfBoundsOutcomes : tpc' = [tpc EXCEPT ![t] = o]
             /\ UNCHANGED <<tgot, delivered, hLock, returned, mem>>
             /\ UNCHANGED lifecycleVars
             /\ UNCHANGED facadeVars

CountedCallback(t) ==
    \E cb \in CountedCbs : \E a \in CountChoices(cb, mem) : InvokeCounted(t, cb, a)

\* One invocation of a counted marshaler, on one foreign thread beside one
\* facade.
NextCount ==
    \/ Initialize(1)
    \/ CountedCallback(1)
    \/ Lookup(1)
    \/ HandlerEnter(1)
    \/ HandlerReturn(1)

SpecCount == Init /\ [][NextCount]_vars

\* C27: every invocation of a marshaler that materialises a pointer+count
\* pair and keeps the count in the event builds an event whose owned
\* sequence has exactly as many elements as the event's count field, for
\* every count the foreign signature admits.
C27_LengthIsCount ==
    \A i \in 1..Len(calls) :
        calls[i].cb \in CountedCbs =>
            LET ps == Marshaler(calls[i].cb).params
                b  == CHOOSE j \in 1..Len(ps) : ps[j] = "buf"
                f  == calls[i].ev.fields
            IN  /\ calls[i].ev.variant = Marshaler(calls[i].cb).variant
                /\ f[b].k = "own"
                /\ Len(f[b].v) = f[b + 1].v[1]
====
